---- MODULE Spec2Model ----
(***************************************************************************)
(* Balance / settlement engine of the sha2etna expense tracker.            *)
(*                                                                         *)
(* Money is an integer number of mills (thousandths of the currency       *)
(* unit): one cent is 10 mills, so 25 is the amount 0.025 and 40 is 0.04.  *)
(* A value the code rounds to two decimals is a multiple of 10.            *)
(*                                                                         *)
(* The specifications share the variables:                                 *)
(*   Spec       the ledger (expenses, splits, payments) of one group       *)
(*   GroupSpec  the membership operations over that ledger                 *)
(*   ReadSpec   a calculateGroupBalances call among concurrent writers     *)
(*   DashSpec   the Dashboard's own balance computation over a ledger      *)
(*   LeaveSpec  leaveGroup / removeMember among concurrent writers         *)
(*   SyncSpec   the offline sync queue and processSyncQueue runs           *)
(*   SplitSpec  ensureParticipants / distributeShares on enumerated input  *)
(*   DebtSpec   buildDebtLines, one loop iteration per step                *)
(***************************************************************************)
EXTENDS Integers, Sequences, FiniteSets, TLC

VARIABLES
    groupExists,    \* a row of table groups exists for the group
    created_by,     \* groups.created_by
    members,        \* groups.members (UUID[])
    group_members,  \* user_ids having a group_members row of the group
    expenses,       \* expenses rows: id -> [payerId, amount] or NoRow
    splits,         \* expense_splits rows: expense id -> (user_id -> amount)
    payments,       \* payments rows: id -> [from, to, amount, status, confirmed_at] or NoRow
    lastOp,         \* the service call that returned last and how
    alloc,          \* SplitSpec: input and result of the split allocator
    dl,             \* DebtSpec: locals of buildDebtLines
    reader,         \* ReadSpec: a calculateGroupBalances call in progress
    dash,           \* DashSpec: a ledger and the Dashboard's loadData over it
    sync,           \* SyncSpec: the offline sync queue and a run over it
    leaving         \* LeaveSpec: a leaveGroup / removeMember call past its check

vars == <<groupExists, created_by, members, group_members, expenses, splits,
          payments, lastOp, alloc, dl, reader, dash, sync, leaving>>

ledgerVars == <<groupExists, created_by, members, group_members, expenses,
                splits, payments, lastOp>>

----------------------------------------------------------------------------
(* Bounds and input sets *)

MaxExpenses == 1
MaxPayments == 1
MaxTotal == 45
MaxParticipants == 2
MaxListed == 1
MaxBalance == 5
MaxBalances == 4
MaxLedger == 2      \* expenses of the ledger the Dashboard loads
PageLimit == 1      \* rows one getExpenses page returns (100 in the source)
MaxItems == 2       \* items ever put on the sync queue
MaxRuns == 2        \* processSyncQueue runs in flight at once

Users == {"a", "b", "c"}
NoUser == ""
NoRow == [none |-> TRUE]
ExpenseIds == 1..MaxExpenses
PaymentIds == 1..MaxPayments

Epsilon == 10
RetryLimit == 3     \* item.retries >= 3

\* the sequences over S of length at most n
SeqsUpTo(S, n) == UNION {[1..k -> S] : k \in 0..n}

Range(s) == {s[i] : i \in DOMAIN s}

RECURSIVE SumOver(_, _)
SumOver(f, S) ==
    IF S = {} THEN 0
    ELSE LET x == CHOOSE y \in S : TRUE
         IN  f[x] + SumOver(f, S \ {x})

----------------------------------------------------------------------------
(* Pure helpers of ExpenseService *)

\* Math.round(total * 100): nearest cent, halves toward +infinity
centsOf(total) == (total + 5) \div 10

\* Number(value.toFixed(2)): nearest cent, halves away from zero
toFixed2(value) ==
    IF value >= 0 THEN ((value + 5) \div 10) * 10
    ELSE -(((-value + 5) \div 10) * 10)

\* the value standing for NaN and the infinities
NotFinite == 999999

\* a variant that lets zero through
assertValidAmountNonNegative(value) == value # NotFinite /\ value >= 0

\* assertValidAmount: throws unless the amount is finite and > 0
assertValidAmount(value) == value # NotFinite /\ value > 0

\* ensureParticipants: drop falsy ids, de-duplicate keeping first
\* occurrences in order (Set insertion order), then add the payer
RECURSIVE uniqueOrder(_, _)
uniqueOrder(ids, acc) ==
    IF ids = <<>> THEN acc
    ELSE IF Head(ids) = NoUser \/ Head(ids) \in Range(acc)
         THEN uniqueOrder(Tail(ids), acc)
         ELSE uniqueOrder(Tail(ids), Append(acc, Head(ids)))

\* a variant that adds the payer only to an otherwise empty list
ensureParticipantsKeepList(participants, payerId) ==
    LET unique == uniqueOrder(participants, <<>>)
    IN  IF unique = <<>> THEN <<payerId>> ELSE unique

ensureParticipants(participants, payerId) ==
    LET unique == uniqueOrder(participants, <<>>)
    IN  IF payerId \in Range(unique) THEN unique ELSE Append(unique, payerId)

\* the forEach of distributeShares: shares[userId] = shareInCents / 100,
\* the first `remainder` positions get one cent more
\* a variant that hands the whole remainder to the first participant
RECURSIVE shareLoopAllToFirst(_, _, _, _, _)
shareLoopAllToFirst(participantIds, index, baseShare, remainder, shares) ==
    IF index > Len(participantIds) THEN shares
    ELSE LET userId == participantIds[index]
             shareInCents == IF index = 1 THEN baseShare + remainder ELSE baseShare
             next == [u \in DOMAIN shares \cup {userId} |->
                         IF u = userId THEN shareInCents * 10 ELSE shares[u]]
         IN  shareLoopAllToFirst(participantIds, index + 1, baseShare, remainder, next)

\* a variant that hands the remainder cents to the last participants
RECURSIVE shareLoopFromEnd(_, _, _, _, _)
shareLoopFromEnd(participantIds, index, baseShare, remainder, shares) ==
    IF index > Len(participantIds) THEN shares
    ELSE LET userId == participantIds[index]
             shareInCents == IF index > Len(participantIds) - remainder
                             THEN baseShare + 1 ELSE baseShare
             next == [u \in DOMAIN shares \cup {userId} |->
                         IF u = userId THEN shareInCents * 10 ELSE shares[u]]
         IN  shareLoopFromEnd(participantIds, index + 1, baseShare, remainder, next)

RECURSIVE shareLoop(_, _, _, _, _)
shareLoop(participantIds, index, baseShare, remainder, shares) ==
    IF index > Len(participantIds) THEN shares
    ELSE LET userId == participantIds[index]
             shareInCents == IF remainder > 0 THEN baseShare + 1 ELSE baseShare
             rest == IF remainder > 0 THEN remainder - 1 ELSE remainder
             next == [u \in DOMAIN shares \cup {userId} |->
                         IF u = userId THEN shareInCents * 10 ELSE shares[u]]
         IN  shareLoop(participantIds, index + 1, baseShare, rest, next)

\* a variant that gives every participant the base share and drops the
\* remainder cents
distributeSharesNoRemainder(total, participantIds) ==
    LET centsTotal == centsOf(total)
        baseShare == centsTotal \div Len(participantIds)
    IN  shareLoop(participantIds, 1, baseShare, 0, <<>>)

distributeShares(total, participantIds) ==
    LET centsTotal == centsOf(total)
        baseShare == centsTotal \div Len(participantIds)
        remainder == centsTotal - baseShare * Len(participantIds)
    IN  shareLoop(participantIds, 1, baseShare, remainder, <<>>)

\* buildSplitRows: one row per participant carrying shares[userId]
buildSplitRows(participants, shares) ==
    [u \in Range(participants) |-> shares[u]]

----------------------------------------------------------------------------
(* SettlementService.calculateGroupBalances *)

\* a variant that counts confirmed payments only
PAYMENT_STATUSES_CONFIRMED_ONLY == {"CONFIRMED"}

\* a variant that counts a payment before it is confirmed
PAYMENT_STATUSES_WITH_PENDING == {"PENDING", "COMPLETED", "CONFIRMED"}

\* which payment statuses count toward balances
PAYMENT_STATUSES == {"COMPLETED", "CONFIRMED"}

\* accumulate: map.set(key, Number(((map.get(key) || 0) + delta).toFixed(2)))
accumulate(map, key, delta) ==
    [k \in DOMAIN map \cup {key} |->
        IF k = key
        THEN toFixed2((IF key \in DOMAIN map THEN map[key] ELSE 0) + delta)
        ELSE map[k]]

\* the three result sets of the queries, for given table contents
expenseRows(ex) == {e \in ExpenseIds : ex[e] # NoRow}
splitRows(ex, sp) ==
    {r \in expenseRows(ex) \X Users : r[2] \in DOMAIN sp[r[1]]}
paymentRows(pay) == {p \in PaymentIds : pay[p] # NoRow}

RECURSIVE paidFold(_, _, _)
paidFold(ex, rows, map) ==
    IF rows = {} THEN map
    ELSE LET e == CHOOSE r \in rows : \A q \in rows : r <= q
         IN  paidFold(ex, rows \ {e}, accumulate(map, ex[e].payerId, ex[e].amount))

RECURSIVE shareFold(_, _, _)
shareFold(sp, rows, map) ==
    IF rows = {} THEN map
    ELSE LET r == CHOOSE x \in rows : TRUE
         IN  shareFold(sp, rows \ {r}, accumulate(map, r[2], sp[r[1]][r[2]]))

\* forEach over payments; `sent` selects the map being built
RECURSIVE paymentFold(_, _, _, _)
paymentFold(pay, rows, sent, map) ==
    IF rows = {} THEN map
    ELSE LET p == CHOOSE r \in rows : \A q \in rows : r <= q
             counted == pay[p].status \in PAYMENT_STATUSES
             key == IF sent THEN pay[p].from ELSE pay[p].to
         IN  paymentFold(pay, rows \ {p}, sent,
                         IF counted THEN accumulate(map, key, pay[p].amount) ELSE map)

paidTotals(ex) == paidFold(ex, expenseRows(ex), <<>>)
\* a variant that charges every expense to the current members in equal
\* parts instead of reading the split rows
shareTotalsByMembers(ex, sp) ==
    [u \in (IF expenseRows(ex) = {} THEN {} ELSE members) |->
        SumOver([e \in expenseRows(ex) |->
                    toFixed2(ex[e].amount \div Cardinality(members))],
                expenseRows(ex))]

shareTotals(ex, sp) == shareFold(sp, splitRows(ex, sp), <<>>)
\* a variant that books a payment on its receiver's sent side
sentTotalsOfReceiver(pay) == paymentFold(pay, paymentRows(pay), FALSE, <<>>)

sentTotals(pay) == paymentFold(pay, paymentRows(pay), TRUE, <<>>)
receivedTotals(pay) == paymentFold(pay, paymentRows(pay), FALSE, <<>>)

orZero(map, u) == IF u \in DOMAIN map THEN map[u] ELSE 0

\* a variant that lists every current member of the group as well
balancesFromWithMembers(paid, share, sent, received) ==
    LET userIds == DOMAIN paid \cup DOMAIN share \cup DOMAIN sent
                      \cup DOMAIN received \cup members
    IN  [userId \in userIds |->
            [totalPaid |-> toFixed2(orZero(paid, userId)),
             totalShare |-> toFixed2(orZero(share, userId)),
             totalSent |-> toFixed2(orZero(sent, userId)),
             totalReceived |-> toFixed2(orZero(received, userId)),
             balance |-> toFixed2((orZero(paid, userId) - orZero(share, userId))
                                  + orZero(sent, userId) - orZero(received, userId))]]

\* the UserBalance list as a map userId -> UserBalance, from the four maps
balancesFrom(paid, share, sent, received) ==
    LET userIds == DOMAIN paid \cup DOMAIN share \cup DOMAIN sent \cup DOMAIN received
    IN  [userId \in userIds |->
            [totalPaid |-> toFixed2(orZero(paid, userId)),
             totalShare |-> toFixed2(orZero(share, userId)),
             totalSent |-> toFixed2(orZero(sent, userId)),
             totalReceived |-> toFixed2(orZero(received, userId)),
             balance |-> toFixed2((orZero(paid, userId) - orZero(share, userId))
                                  + orZero(sent, userId) - orZero(received, userId))]]

\* the result for given table contents, all three read at one moment
balancesOf(ex, sp, pay) ==
    balancesFrom(paidTotals(ex), shareTotals(ex, sp), sentTotals(pay),
                 receivedTotals(pay))

calculateGroupBalances == balancesOf(expenses, splits, payments)

\* balances.find(b => b.userId === userId), a missing entry read as 0
balanceIn(bals, u) == IF u \in DOMAIN bals THEN bals[u].balance ELSE 0
Balance(u) == balanceIn(calculateGroupBalances, u)

abs(x) == IF x < 0 THEN -x ELSE x

----------------------------------------------------------------------------
(* Inputs of the ledger operations.  Users are interchangeable, so the     *)
(* group's creator is always the user named a.                             *)

\* amounts handed to addExpense / updateExpense (the form passes
\* parseFloat of its field): not finite, -0.01, 0, 0.025, 0.04
ExpenseAmounts == {NotFinite, -10, 0, 25, 40}
\* participant lists handed to addExpense / updateExpense
ParticipantLists == SeqsUpTo(Users, MaxListed)
\* amounts of suggested transfers (two decimals, above 0.01)
PaymentAmounts == {20}
Statuses == {"PENDING", "COMPLETED", "CONFIRMED", "REJECTED"}
Creators == {"a"}

noSplits == [e \in ExpenseIds |-> <<>>]

\* how a service call returned: ok is FALSE when it threw or returned false;
\* member is the user a membership call was about, refused tells that it
\* threw because of unsettled debts
\* fault names what went wrong inside an expense or payment call: "input"
\* (rejected before any request), "read", "write" or "notify" (a failed
\* request of that kind), "none" otherwise
Outcome(op, member, ok, refused, fault) ==
    lastOp' = [op |-> op, ok |-> ok, member |-> member, refused |-> refused,
               fault |-> fault]
ReturnedFor(op, member, ok, refused) == Outcome(op, member, ok, refused, "none")
Returned(op, ok) == ReturnedFor(op, NoUser, ok, FALSE)
Faulted(op, ok, fault) == Outcome(op, NoUser, ok, FALSE, fault)

----------------------------------------------------------------------------
(* ExpenseService *)

\* addExpense: validate, insert the expense row under a fresh id
\* (createId), insert the split rows;
\* when the split insert fails the expense row is deleted again, and the
\* outcome of that delete is not looked at
addExpense(id, payerId, amount, rawParticipants) ==
    LET participants == ensureParticipants(rawParticipants, payerId)
        shares == distributeShares(amount, participants)
        row == [payerId |-> payerId, amount |-> amount]
    IN  /\ expenses[id] = NoRow
        /\ IF ~assertValidAmount(amount) \/ ~groupExists
           THEN /\ Faulted("addExpense", FALSE,
                           IF assertValidAmount(amount) THEN "write" ELSE "input")
                /\ UNCHANGED <<expenses, splits>>
           ELSE \E outcome \in {"ok", "insertFails", "splitsFail", "undoFails"} :
                  /\ Faulted("addExpense", outcome = "ok",
                             IF outcome = "ok" THEN "none" ELSE "write")
                  /\ expenses' = IF outcome \in {"ok", "undoFails"}
                                 THEN [expenses EXCEPT ![id] = row] ELSE expenses
                  /\ splits' = IF outcome = "ok"
                               THEN [splits EXCEPT ![id] =
                                        buildSplitRows(participants, shares)]
                               ELSE splits
        /\ UNCHANGED <<groupExists, created_by, members, group_members,
                       payments, alloc, dl, reader, dash, sync, leaving>>

\* deleteExpense: delete the splits (result ignored), then the expense row
\* (ON DELETE CASCADE removes its splits with it)
deleteExpense(id) ==
    /\ \E outcome \in {"ok", "splitsDeleteFails", "bothFail", "expenseDeleteFails"} :
         /\ Faulted("deleteExpense", outcome \in {"ok", "splitsDeleteFails"},
                    IF outcome = "ok" THEN "none" ELSE "write")
         /\ expenses' = IF outcome \in {"ok", "splitsDeleteFails"}
                        THEN [expenses EXCEPT ![id] = NoRow] ELSE expenses
         /\ splits' = IF outcome = "bothFail" THEN splits
                      ELSE [splits EXCEPT ![id] = <<>>]
    /\ UNCHANGED <<groupExists, created_by, members, group_members,
                   payments, alloc, dl, reader, dash, sync, leaving>>

\* update_expense_with_splits: one database function, all or nothing
update_expense_with_splits(id, new_amount, new_payer_id, new_splits) ==
    /\ expenses' = [expenses EXCEPT ![id] =
                       [payerId |-> new_payer_id, amount |-> new_amount]]
    /\ splits' = [splits EXCEPT ![id] = new_splits]

\* updateExpense: validate, read the current row, re-split for the stored
\* payer, call the database function, read the row back
updateExpense(id, amount, rawParticipants) ==
    /\ IF ~assertValidAmount(amount) \/ expenses[id] = NoRow
       THEN /\ Faulted("updateExpense", FALSE,
                       IF assertValidAmount(amount) THEN "read" ELSE "input")
            /\ UNCHANGED <<expenses, splits>>
       ELSE \E outcome \in {"ok", "rpcFails", "refreshFails"} :
              LET payerId == expenses[id].payerId
                  participants == ensureParticipants(rawParticipants, payerId)
                  shares == distributeShares(amount, participants)
              IN  /\ Faulted("updateExpense", outcome = "ok",
                             CASE outcome = "ok" -> "none"
                               [] outcome = "rpcFails" -> "write"
                               [] outcome = "refreshFails" -> "read")
                  /\ IF outcome = "rpcFails"
                     THEN UNCHANGED <<expenses, splits>>
                     ELSE update_expense_with_splits(id, amount, payerId,
                              buildSplitRows(participants, shares))
    /\ UNCHANGED <<groupExists, created_by, members, group_members,
                   payments, alloc, dl, reader, dash, sync, leaving>>

----------------------------------------------------------------------------
(* PaymentService *)

\* addPayment: insert the row as given (its id is fresh), then notify the
\* receiver; a failed
\* notification makes the call throw after the row is stored
addPayment(payment) ==
    /\ payments[payment.id] = NoRow
    /\ IF ~groupExists
       THEN /\ Faulted("addPayment", FALSE, "write")
            /\ UNCHANGED payments
       ELSE \E outcome \in {"ok", "insertFails", "notifyFails"} :
              /\ Faulted("addPayment", outcome = "ok",
                         CASE outcome = "ok" -> "none"
                           [] outcome = "insertFails" -> "write"
                           [] outcome = "notifyFails" -> "notify")
              /\ payments' = IF outcome = "insertFails" THEN payments
                             ELSE [payments EXCEPT ![payment.id] =
                                     [from |-> payment.from, to |-> payment.to,
                                      amount |-> payment.amount,
                                      status |-> payment.status,
                                      confirmed_at |-> FALSE]]
    /\ UNCHANGED <<groupExists, created_by, members, group_members,
                   expenses, splits, alloc, dl, reader, dash, sync, leaving>>

\* a variant that stores the new payment as COMPLETED
handlePayCompleted(id, currentUser, toUserId, amount) ==
    addPayment([id |-> id, from |-> currentUser, to |-> toUserId,
                amount |-> amount, status |-> "COMPLETED"])

\* SettlementsPage.handlePay: the debtor of a suggested transfer starts a
\* PENDING payment to its creditor
handlePay(id, currentUser, toUserId, amount) ==
    addPayment([id |-> id, from |-> currentUser, to |-> toUserId,
                amount |-> amount, status |-> "PENDING"])

\* updatePayment: update(payment).eq('id', payment.id), no other condition
updatePayment(id, status) ==
    /\ \E outcome \in {"ok", "updateFails"} :
         /\ Faulted("updatePayment", outcome = "ok",
                    IF outcome = "ok" THEN "none" ELSE "write")
         /\ payments' = IF outcome = "ok" /\ payments[id] # NoRow
                        THEN [payments EXCEPT ![id].status = status]
                        ELSE payments
    /\ UNCHANGED <<groupExists, created_by, members, group_members,
                   expenses, splits, alloc, dl, reader, dash, sync, leaving>>

\* a variant that restores the row it read when the notification fails
confirmPaymentRollsBack(paymentId) ==
    /\ IF payments[paymentId] = NoRow
       THEN /\ Faulted("confirmPayment", FALSE, "read")
            /\ UNCHANGED payments
       ELSE \E outcome \in {"ok", "updateFails", "notifyFails"} :
              /\ Faulted("confirmPayment", outcome = "ok",
                         CASE outcome = "ok" -> "none"
                           [] outcome = "updateFails" -> "write"
                           [] outcome = "notifyFails" -> "notify")
              /\ payments' = IF outcome # "ok" THEN payments
                             ELSE [payments EXCEPT
                                     ![paymentId].status = "CONFIRMED",
                                     ![paymentId].confirmed_at = TRUE]
    /\ UNCHANGED <<groupExists, created_by, members, group_members,
                   expenses, splits, alloc, dl, reader, dash, sync, leaving>>

\* confirmPayment: read the row (.single() fails when there is none), set
\* status CONFIRMED and confirmed_at by id alone, then notify the sender
confirmPayment(paymentId) ==
    /\ IF payments[paymentId] = NoRow
       THEN /\ Faulted("confirmPayment", FALSE, "read")
            /\ UNCHANGED payments
       ELSE \E outcome \in {"ok", "updateFails", "notifyFails"} :
              /\ Faulted("confirmPayment", outcome = "ok",
                         CASE outcome = "ok" -> "none"
                           [] outcome = "updateFails" -> "write"
                           [] outcome = "notifyFails" -> "notify")
              /\ payments' = IF outcome = "updateFails" THEN payments
                             ELSE [payments EXCEPT
                                     ![paymentId].status = "CONFIRMED",
                                     ![paymentId].confirmed_at = TRUE]
    /\ UNCHANGED <<groupExists, created_by, members, group_members,
                   expenses, splits, alloc, dl, reader, dash, sync, leaving>>

\* rejectPayment: set status REJECTED by id alone
rejectPayment(paymentId) ==
    /\ \E outcome \in {"ok", "updateFails"} :
         /\ Faulted("rejectPayment", outcome = "ok",
                    IF outcome = "ok" THEN "none" ELSE "write")
         /\ payments' = IF outcome = "ok" /\ payments[paymentId] # NoRow
                        THEN [payments EXCEPT ![paymentId].status = "REJECTED"]
                        ELSE payments
    /\ UNCHANGED <<groupExists, created_by, members, group_members,
                   expenses, splits, alloc, dl, reader, dash, sync, leaving>>

----------------------------------------------------------------------------
(* GroupService *)

\* Math.abs(balance) > 0.01 on the entry found for the user, if any
\* a variant that holds back creditors only
outstandingCreditOnly(bals, u) == balanceIn(bals, u) > Epsilon

outstanding(bals, u) == abs(balanceIn(bals, u)) > Epsilon

\* createGroup: insert the group with members [createdBy], then the
\* creator's group_members row (result ignored)
createGroup(createdBy) ==
    /\ ~groupExists
    /\ \E outcome \in {"ok", "insertFails", "memberRowFails"} :
         /\ Returned("createGroup", outcome # "insertFails")
         /\ groupExists' = (outcome # "insertFails")
         /\ created_by' = IF outcome = "insertFails" THEN NoUser ELSE createdBy
         /\ members' = IF outcome = "insertFails" THEN {} ELSE {createdBy}
         /\ group_members' = IF outcome = "ok" THEN {createdBy} ELSE {}
    /\ UNCHANGED <<expenses, splits, payments, alloc, dl, reader, dash, sync, leaving>>

\* joinGroup -> join_group_with_code: one database function; refuses an
\* unknown code, a wrong password and a user that has a group_members row
joinGroup(userId, passwordOk) ==
    /\ IF ~groupExists \/ ~passwordOk \/ userId \in group_members
       THEN /\ Returned("joinGroup", FALSE)
            /\ UNCHANGED <<members, group_members>>
       ELSE \E outcome \in {"ok", "rpcFails"} :
              /\ Returned("joinGroup", outcome = "ok")
              /\ members' = IF outcome = "ok" THEN members \cup {userId} ELSE members
              /\ group_members' = IF outcome = "ok"
                                  THEN group_members \cup {userId} ELSE group_members
    /\ UNCHANGED <<groupExists, created_by, expenses, splits, payments, alloc, dl, reader, dash, sync, leaving>>

\* leaveGroup: refuse while the member's balance is outstanding, else
\* write the filtered members array and delete the group_members row
\* (result ignored)
leaveGroup(userId) ==
    /\ IF ~groupExists \/ outstanding(calculateGroupBalances, userId)
       THEN /\ ReturnedFor("leaveGroup", userId, FALSE, groupExists)
            /\ UNCHANGED <<members, group_members>>
       ELSE \E outcome \in {"ok", "updateFails", "rowDeleteFails"} :
              /\ ReturnedFor("leaveGroup", userId, outcome # "updateFails", FALSE)
              /\ members' = IF outcome = "updateFails" THEN members
                            ELSE members \ {userId}
              /\ group_members' = IF outcome = "ok" THEN group_members \ {userId}
                                  ELSE group_members
    /\ UNCHANGED <<groupExists, created_by, expenses, splits, payments, alloc, dl, reader, dash, sync, leaving>>

\* removeMember: only the owner, never the owner itself, and not while the
\* member's balance is outstanding; the notification comes after the writes
removeMember(adminId, memberId) ==
    /\ IF ~groupExists \/ created_by # adminId \/ memberId = adminId
          \/ outstanding(calculateGroupBalances, memberId)
       THEN /\ ReturnedFor("removeMember", memberId, FALSE,
                           groupExists /\ created_by = adminId /\ memberId # adminId)
            /\ UNCHANGED <<members, group_members>>
       ELSE \E outcome \in {"ok", "updateFails", "rowDeleteFails", "notifyFails"} :
              /\ ReturnedFor("removeMember", memberId,
                             outcome \in {"ok", "rowDeleteFails"}, FALSE)
              /\ members' = IF outcome = "updateFails" THEN members
                            ELSE members \ {memberId}
              /\ group_members' = IF outcome \in {"ok", "notifyFails"}
                                  THEN group_members \ {memberId}
                                  ELSE group_members
    /\ UNCHANGED <<groupExists, created_by, expenses, splits, payments, alloc, dl, reader, dash, sync, leaving>>

\* deleteGroup: only the owner and only when no balance is outstanding;
\* the per-table deletes may fail one by one (logged, ignored), the final
\* delete of the group row cascades to group_members, expenses and splits
\* and detaches the payments that are left (ON DELETE SET NULL)
deleteGroup(adminId) ==
    /\ IF ~groupExists \/ created_by # adminId
          \/ \E b \in DOMAIN calculateGroupBalances :
                abs(calculateGroupBalances[b].balance) > Epsilon
       THEN /\ ReturnedFor("deleteGroup", NoUser, FALSE,
                           groupExists /\ created_by = adminId)
            /\ UNCHANGED <<groupExists, created_by, members, group_members,
                           expenses, splits, payments>>
       ELSE \/ /\ Returned("deleteGroup", TRUE)
               /\ groupExists' = FALSE
               /\ created_by' = NoUser
               /\ members' = {}
               /\ group_members' = {}
               /\ expenses' = [e \in ExpenseIds |-> NoRow]
               /\ splits' = noSplits
               /\ payments' = [p \in PaymentIds |-> NoRow]
            \/ \E membersFail, expensesFail, paymentsFail \in BOOLEAN :
               /\ Returned("deleteGroup", FALSE)
               /\ group_members' = IF membersFail THEN group_members ELSE {}
               /\ expenses' = IF expensesFail THEN expenses
                              ELSE [e \in ExpenseIds |-> NoRow]
               /\ splits' = IF expensesFail THEN splits ELSE noSplits
               /\ payments' = IF paymentsFail THEN payments
                              ELSE [p \in PaymentIds |-> NoRow]
               /\ UNCHANGED <<groupExists, created_by, members>>
    /\ UNCHANGED <<alloc, dl, reader, dash, sync, leaving>>

----------------------------------------------------------------------------
(* The ledger specification *)

allocIdle == [pc |-> "idle"]
dlIdle == [pc |-> "idle"]
readerIdle == [pc |-> "idle"]
dashIdle == [pc |-> "idle"]
syncIdle == [pc |-> "idle"]
leavingIdle == [pc |-> "idle"]

Init ==
    /\ groupExists = FALSE
    /\ created_by = NoUser
    /\ members = {}
    /\ group_members = {}
    /\ expenses = [e \in ExpenseIds |-> NoRow]
    /\ splits = noSplits
    /\ payments = [p \in PaymentIds |-> NoRow]
    /\ lastOp = [op |-> "none", ok |-> TRUE, member |-> NoUser, refused |-> FALSE,
                 fault |-> "none"]
    /\ alloc = allocIdle
    /\ dl = dlIdle
    /\ reader = readerIdle
    /\ dash = dashIdle
    /\ sync = syncIdle
    /\ leaving = leavingIdle

AddExpense ==
    \E id \in ExpenseIds, payerId \in Users, amount \in ExpenseAmounts,
       raw \in ParticipantLists : addExpense(id, payerId, amount, raw)
UpdateExpense ==
    \E id \in ExpenseIds, amount \in ExpenseAmounts, raw \in ParticipantLists :
       updateExpense(id, amount, raw)
DeleteExpense == \E id \in ExpenseIds : deleteExpense(id)
HandlePay ==
    \E id \in PaymentIds, from \in Users, to \in Users, amount \in PaymentAmounts :
       from # to /\ handlePay(id, from, to, amount)
UpdatePayment == \E id \in PaymentIds, status \in Statuses : updatePayment(id, status)
ConfirmPayment == \E id \in PaymentIds : confirmPayment(id)
RejectPayment == \E id \in PaymentIds : rejectPayment(id)
CreateGroup == \E u \in Creators : createGroup(u)
\* the users that take part in the membership operations
GroupUsers == {"a", "b"}
JoinGroup == \E u \in GroupUsers, passwordOk \in BOOLEAN : joinGroup(u, passwordOk)
LeaveGroup == \E u \in GroupUsers : leaveGroup(u)
RemoveMember ==
    \E adminId \in GroupUsers, memberId \in GroupUsers : removeMember(adminId, memberId)
DeleteGroup == \E adminId \in GroupUsers : deleteGroup(adminId)

\* the ledger of one group: the group is created, then expenses and
\* payments are recorded, edited and settled
Next ==
    \/ CreateGroup
    \/ AddExpense
    \/ UpdateExpense
    \/ DeleteExpense
    \/ HandlePay
    \/ UpdatePayment
    \/ ConfirmPayment
    \/ RejectPayment

Spec == Init /\ [][Next]_vars

\* the expense form: the payer and the selected participants are members
MemberAddExpense ==
    \E id \in ExpenseIds, payerId \in members, amount \in ExpenseAmounts,
       raw \in SeqsUpTo(members, MaxListed) : addExpense(id, payerId, amount, raw)

\* the Pay button of a suggested transfer: shown to a debtor, toward a
\* creditor
SettleDebt ==
    \E id \in PaymentIds, from \in Users, to \in Users, amount \in PaymentAmounts :
       /\ Balance(from) < -Epsilon
       /\ Balance(to) > Epsilon
       /\ handlePay(id, from, to, amount)

\* membership of the group, over a ledger that grows by the members'
\* expenses and is settled by confirmed payments
GroupNext ==
    \/ CreateGroup
    \/ JoinGroup
    \/ LeaveGroup
    \/ RemoveMember
    \/ DeleteGroup
    \/ MemberAddExpense
    \/ SettleDebt
    \/ ConfirmPayment

GroupSpec == Init /\ [][GroupNext]_vars

----------------------------------------------------------------------------
(* calculateGroupBalances as a client runs it: three requests sent          *)
(* together (Promise.all), each answered from the tables as they are when   *)
(* it is served, in any order, while other clients write                    *)

Queries == {"expenses", "expense_splits", "payments"}

\* calculateGroupBalances(groupId) with a non-empty groupId: send the
\* three requests
BalancesCall ==
    /\ reader.pc \in {"idle", "done"}
    /\ reader' = [pc |-> "reading", answered |-> {},
                  expensesRes |-> [e \in ExpenseIds |-> NoRow],
                  splitsRes |-> noSplits,
                  paymentsRes |-> [p \in PaymentIds |-> NoRow]]
    /\ UNCHANGED <<ledgerVars, alloc, dl, dash, sync, leaving>>

\* one request is answered: the rows of the group at that moment (the
\* split rows through the inner join on their expense), or an error
BalancesRead ==
    /\ reader.pc = "reading"
    /\ \E q \in Queries \ reader.answered, outcome \in {"ok", "fails"} :
          reader' =
             IF outcome = "fails" THEN [pc |-> "done", ok |-> FALSE]
             ELSE [reader EXCEPT
                     !.answered = @ \cup {q},
                     !.expensesRes = IF q = "expenses" THEN expenses ELSE @,
                     !.splitsRes = IF q = "expense_splits"
                                   THEN [e \in ExpenseIds |->
                                           IF expenses[e] # NoRow THEN splits[e]
                                           ELSE <<>>]
                                   ELSE @,
                     !.paymentsRes = IF q = "payments" THEN payments ELSE @]
    /\ UNCHANGED <<ledgerVars, alloc, dl, dash, sync, leaving>>

\* every split row of a result set
joinedRows(sp) == {r \in ExpenseIds \X Users : r[2] \in DOMAIN sp[r[1]]}

\* all three answered: fold the rows and return the list
BalancesReturn ==
    /\ reader.pc = "reading"
    /\ reader.answered = Queries
    /\ reader' = [pc |-> "done", ok |-> TRUE,
                  expensesRes |-> reader.expensesRes,
                  splitsRes |-> reader.splitsRes,
                  result |->
                     balancesFrom(paidTotals(reader.expensesRes),
                                  shareFold(reader.splitsRes,
                                            joinedRows(reader.splitsRes), <<>>),
                                  sentTotals(reader.paymentsRes),
                                  receivedTotals(reader.paymentsRes))]
    /\ UNCHANGED <<ledgerVars, alloc, dl, dash, sync, leaving>>

ReadNext ==
    \/ CreateGroup
    \/ MemberAddExpense
    \/ UpdateExpense
    \/ BalancesCall
    \/ BalancesRead
    \/ BalancesReturn

ReadSpec == Init /\ [][ReadNext]_vars

----------------------------------------------------------------------------
(* Dashboard.loadData over a stored ledger: the current user's balance as   *)
(* the page computes it from getExpenses and getPayments.  The ledger is a  *)
(* list of expenses as addExpense stores them, newest first, and a list of  *)
(* payments.                                                                *)

\* an expenses row with its expense_splits rows, as addExpense commits it
storedExpense(payerId, amount, rawParticipants) ==
    LET participants == ensureParticipants(rawParticipants, payerId)
        shares == distributeShares(amount, participants)
    IN  [payerId |-> payerId, amount |-> amount,
         splitBetween |-> participants, splitAmounts |-> shares,
         expense_splits |-> buildSplitRows(participants, shares)]

StoredExpenses ==
    {storedExpense(payerId, amount, raw) :
        payerId \in GroupUsers, amount \in {a \in ExpenseAmounts : assertValidAmount(a)},
        raw \in ParticipantLists}

StoredPayments ==
    {[from |-> from, to |-> to, amount |-> amount, status |-> status] :
        from \in GroupUsers, to \in GroupUsers, amount \in PaymentAmounts,
        status \in Statuses}

DashInit ==
    /\ \E rows \in SeqsUpTo(StoredExpenses, MaxLedger),
          pays \in SeqsUpTo(StoredPayments, MaxPayments),
          currentUser \in Users :
          dash = [pc |-> "stored", rows |-> rows, payments |-> pays,
                  currentUser |-> currentUser, allExpenses |-> <<>>,
                  allPayments |-> <<>>, net |-> 0]
    /\ groupExists = FALSE
    /\ created_by = NoUser
    /\ members = {}
    /\ group_members = {}
    /\ expenses = [e \in ExpenseIds |-> NoRow]
    /\ splits = noSplits
    /\ payments = [p \in PaymentIds |-> NoRow]
    /\ lastOp = [op |-> "none", ok |-> TRUE, member |-> NoUser, refused |-> FALSE,
                 fault |-> "none"]
    /\ alloc = allocIdle
    /\ dl = dlIdle
    /\ reader = readerIdle
    /\ sync = syncIdle
    /\ leaving = leavingIdle

\* mapExpenseRow: amounts to two decimals; the split rows when there are
\* any, else the splitBetween / splitAmounts columns
mapExpenseRow(row) ==
    LET some == DOMAIN row.expense_splits # {}
    IN  [payerId |-> row.payerId,
         amount |-> toFixed2(row.amount),
         splitBetween |-> IF some THEN DOMAIN row.expense_splits
                          ELSE Range(row.splitBetween),
         splitAmounts |-> IF some
                          THEN [u \in DOMAIN row.expense_splits |->
                                  toFixed2(row.expense_splits[u])]
                          ELSE row.splitAmounts]

\* getExpenses({groupId, limit}): the newest `limit` rows, mapped
getExpenses(rows) ==
    LET n == IF Len(rows) > PageLimit THEN PageLimit ELSE Len(rows)
    IN  [i \in 1..n |-> mapExpenseRow(rows[i])]

\* loadData: await Promise.all([getExpenses, getPayments])
DashLoad ==
    /\ dash.pc = "stored"
    /\ dash' = [dash EXCEPT !.pc = "loaded",
                            !.allExpenses = getExpenses(dash.rows),
                            !.allPayments = dash.payments]
    /\ UNCHANGED <<ledgerVars, alloc, dl, reader, sync, leaving>>

\* the body of allExpenses.forEach for one expense
paidByMeOf(exp, me) == IF exp.payerId = me THEN exp.amount ELSE 0
myShareOf(exp, me) ==
    IF me \in DOMAIN exp.splitAmounts THEN exp.splitAmounts[me]
    ELSE IF me \in exp.splitBetween
         THEN exp.amount \div Cardinality(exp.splitBetween)
         ELSE 0

\* the body of allPayments.forEach for one payment
receivedOf(pay, me) ==
    IF pay.status \in {"COMPLETED", "CONFIRMED"} /\ pay.to = me THEN pay.amount ELSE 0
sentOf(pay, me) ==
    IF pay.status \in {"COMPLETED", "CONFIRMED"} /\ pay.from = me THEN pay.amount ELSE 0

\* net = (paidByMe - myShareTotal) + sent - received
DashNet ==
    /\ dash.pc = "loaded"
    /\ LET me == dash.currentUser
           ex == dash.allExpenses
           pay == dash.allPayments
           paidByMe == SumOver([i \in DOMAIN ex |-> paidByMeOf(ex[i], me)], DOMAIN ex)
           myShareTotal == SumOver([i \in DOMAIN ex |-> myShareOf(ex[i], me)], DOMAIN ex)
           received == SumOver([i \in DOMAIN pay |-> receivedOf(pay[i], me)], DOMAIN pay)
           sent == SumOver([i \in DOMAIN pay |-> sentOf(pay[i], me)], DOMAIN pay)
       IN  dash' = [dash EXCEPT !.pc = "done",
                                !.net = (paidByMe - myShareTotal) + sent - received]
    /\ UNCHANGED <<ledgerVars, alloc, dl, reader, sync, leaving>>

\* calculateGroupBalances over the same ledger
dashBalances ==
    LET rows == dash.rows
        sp == [i \in DOMAIN rows |-> rows[i].expense_splits]
    IN  balancesFrom(paidFold(rows, DOMAIN rows, <<>>),
                     shareFold(sp, {r \in (DOMAIN rows) \X Users : r[2] \in DOMAIN sp[r[1]]},
                               <<>>),
                     paymentFold(dash.payments, DOMAIN dash.payments, TRUE, <<>>),
                     paymentFold(dash.payments, DOMAIN dash.payments, FALSE, <<>>))

DashNext == DashLoad \/ DashNet

DashSpec == DashInit /\ [][DashNext]_vars

----------------------------------------------------------------------------
(* leaveGroup and removeMember as a client runs them: the group and the     *)
(* balances are read first, the members array is written afterwards, and    *)
(* other clients' calls can commit in between                               *)

\* leaveGroup up to its balance check: fetchGroup, calculateGroupBalances
leaveGroupCheck(userId) ==
    /\ leaving.pc = "idle"
    /\ IF ~groupExists \/ outstanding(calculateGroupBalances, userId)
       THEN /\ ReturnedFor("leaveGroup", userId, FALSE, groupExists)
            /\ UNCHANGED leaving
       ELSE /\ leaving' = [pc |-> "checked", op |-> "leaveGroup",
                           memberId |-> userId, members |-> members]
            /\ UNCHANGED lastOp
    /\ UNCHANGED <<groupExists, created_by, members, group_members, expenses,
                   splits, payments, alloc, dl, reader, dash, sync>>

\* leaveGroup from its update on: write group.members without the user,
\* delete the group_members row (result ignored)
leaveGroupWrite ==
    /\ leaving.pc = "checked"
    /\ leaving.op = "leaveGroup"
    /\ \E outcome \in {"ok", "updateFails", "rowDeleteFails"} :
         /\ ReturnedFor("leaveGroup", leaving.memberId, outcome # "updateFails", FALSE)
         /\ members' = IF outcome = "updateFails" THEN members
                       ELSE leaving.members \ {leaving.memberId}
         /\ group_members' = IF outcome = "ok"
                             THEN group_members \ {leaving.memberId}
                             ELSE group_members
    /\ leaving' = leavingIdle
    /\ UNCHANGED <<groupExists, created_by, expenses, splits, payments,
                   alloc, dl, reader, dash, sync>>

\* removeMember up to its balance check
removeMemberCheck(adminId, memberId) ==
    /\ leaving.pc = "idle"
    /\ IF ~groupExists \/ created_by # adminId \/ memberId = adminId
          \/ outstanding(calculateGroupBalances, memberId)
       THEN /\ ReturnedFor("removeMember", memberId, FALSE,
                           groupExists /\ created_by = adminId /\ memberId # adminId)
            /\ UNCHANGED leaving
       ELSE /\ leaving' = [pc |-> "checked", op |-> "removeMember",
                           memberId |-> memberId, members |-> members]
            /\ UNCHANGED lastOp
    /\ UNCHANGED <<groupExists, created_by, members, group_members, expenses,
                   splits, payments, alloc, dl, reader, dash, sync>>

\* removeMember from its update on; the notification comes last
removeMemberWrite ==
    /\ leaving.pc = "checked"
    /\ leaving.op = "removeMember"
    /\ \E outcome \in {"ok", "updateFails", "rowDeleteFails", "notifyFails"} :
         /\ ReturnedFor("removeMember", leaving.memberId,
                        outcome \in {"ok", "rowDeleteFails"}, FALSE)
         /\ members' = IF outcome = "updateFails" THEN members
                       ELSE leaving.members \ {leaving.memberId}
         /\ group_members' = IF outcome \in {"ok", "notifyFails"}
                             THEN group_members \ {leaving.memberId}
                             ELSE group_members
    /\ leaving' = leavingIdle
    /\ UNCHANGED <<groupExists, created_by, expenses, splits, payments,
                   alloc, dl, reader, dash, sync>>

LeaveGroupCheck == \E u \in GroupUsers : leaveGroupCheck(u)
RemoveMemberCheck ==
    \E adminId \in GroupUsers, memberId \in GroupUsers :
       removeMemberCheck(adminId, memberId)

LeaveNext ==
    \/ CreateGroup
    \/ JoinGroup
    \/ MemberAddExpense
    \/ LeaveGroupCheck
    \/ leaveGroupWrite
    \/ RemoveMemberCheck
    \/ removeMemberWrite

LeaveSpec == Init /\ [][LeaveNext]_vars

----------------------------------------------------------------------------
(* OfflineService: the sync queue (IndexedDB store sync_queue) and          *)
(* processSyncQueue.  A run starts on every `online` event of the window,   *)
(* so a second run can start while the first awaits a handler or the store. *)
(* The fields attempts, failures, succeeded and added record, per item, how *)
(* its handler was called; the code does not read them.                     *)

SyncIds == 1..MaxItems
SyncRuns == 1..MaxRuns
runIdle == [pc |-> "idle", items |-> <<>>, index |-> 0]

SyncInit ==
    /\ sync = [online |-> TRUE, now |-> 1,
               queue |-> [id \in SyncIds |-> NoRow],
               runs |-> [r \in SyncRuns |-> runIdle],
               added |-> [id \in SyncIds |-> FALSE],
               attempts |-> [id \in SyncIds |-> 0],
               failures |-> [id \in SyncIds |-> 0],
               succeeded |-> [id \in SyncIds |-> FALSE],
               offlineRuns |-> 0]
    /\ groupExists = FALSE
    /\ created_by = NoUser
    /\ members = {}
    /\ group_members = {}
    /\ expenses = [e \in ExpenseIds |-> NoRow]
    /\ splits = noSplits
    /\ payments = [p \in PaymentIds |-> NoRow]
    /\ lastOp = [op |-> "none", ok |-> TRUE, member |-> NoUser, refused |-> FALSE,
                 fault |-> "none"]
    /\ alloc = allocIdle
    /\ dl = dlIdle
    /\ reader = readerIdle
    /\ dash = dashIdle
    /\ leaving = leavingIdle

syncFrame ==
    UNCHANGED <<ledgerVars, alloc, dl, reader, dash, leaving>>

\* Date.now() moves on
SyncTick ==
    /\ sync.now < MaxItems
    /\ sync' = [sync EXCEPT !.now = @ + 1]
    /\ syncFrame

\* navigator.onLine changes
SyncSetOnline ==
    /\ sync' = [sync EXCEPT !.online = ~@]
    /\ syncFrame

\* addToSyncQueue: a new item under a fresh id, timestamp Date.now(),
\* retries 0
addToSyncQueue(id) ==
    /\ ~sync.added[id]
    /\ sync' = [sync EXCEPT !.queue[id] = [timestamp |-> sync.now, retries |-> 0],
                            !.added[id] = TRUE]
    /\ syncFrame

\* queue.sort((a, b) => a.timestamp - b.timestamp) over getAll(), which
\* lists the items by key; the sort is stable
RECURSIVE sortedQueue(_, _)
sortedQueue(queue, ids) ==
    IF ids = {} THEN <<>>
    ELSE LET first == CHOOSE x \in ids : \A y \in ids :
                         \/ queue[x].timestamp < queue[y].timestamp
                         \/ queue[x].timestamp = queue[y].timestamp /\ x <= y
         IN  <<[id |-> first, timestamp |-> queue[first].timestamp,
                retries |-> queue[first].retries]>>
                \o sortedQueue(queue, ids \ {first})

\* processSyncQueue up to its loop: return at once when offline, else read
\* the queue and sort it
processSyncQueueStart(r) ==
    /\ sync.runs[r].pc = "idle"
    /\ IF ~sync.online
       THEN /\ sync.offlineRuns < MaxRuns
            /\ sync' = [sync EXCEPT !.offlineRuns = @ + 1]
       ELSE sync' = [sync EXCEPT !.runs[r] =
                       [pc |-> "loop", index |-> 1,
                        items |-> sortedQueue(sync.queue,
                                     {id \in SyncIds : sync.queue[id] # NoRow})]]
    /\ syncFrame

\* removeFromSyncQueue when retries has reached the limit, else
\* updateSyncQueueItem (a put: it stores the item whether or not it is
\* still in the store)
afterFailure(queue, item, retries) ==
    IF retries >= RetryLimit THEN [queue EXCEPT ![item.id] = NoRow]
    ELSE [queue EXCEPT ![item.id] = [timestamp |-> item.timestamp, retries |-> retries]]

\* one iteration of the for loop of run r: the handler returns true (the
\* item is removed) or returns false or throws (retries is raised on the
\* run's copy of the item, which is then removed or written back).  The
\* store operations are taken to go through.
processSyncQueueItem(r) ==
    /\ sync.runs[r].pc = "loop"
    /\ sync.runs[r].index <= Len(sync.runs[r].items)
    /\ LET item == sync.runs[r].items[sync.runs[r].index]
       IN  /\ sync.attempts[item.id] <= RetryLimit
           /\ \E result \in {"true", "false", "throws"} :
                 sync' = [sync EXCEPT
                    !.queue = IF result = "true"
                              THEN [sync.queue EXCEPT ![item.id] = NoRow]
                              ELSE afterFailure(sync.queue, item, item.retries + 1),
                    !.runs[r].index = @ + 1,
                    !.attempts[item.id] = @ + 1,
                    !.failures[item.id] = IF result = "true" THEN @ ELSE @ + 1,
                    !.succeeded[item.id] = @ \/ result = "true"]
    /\ syncFrame

\* the loop is over: return { success, failed }
processSyncQueueReturn(r) ==
    /\ sync.runs[r].pc = "loop"
    /\ sync.runs[r].index > Len(sync.runs[r].items)
    /\ sync' = [sync EXCEPT !.runs[r] = runIdle]
    /\ syncFrame

AddToSyncQueue == \E id \in SyncIds : addToSyncQueue(id)
ProcessSyncQueueStart == \E r \in SyncRuns : processSyncQueueStart(r)
ProcessSyncQueueItem == \E r \in SyncRuns : processSyncQueueItem(r)
ProcessSyncQueueReturn == \E r \in SyncRuns : processSyncQueueReturn(r)

SyncNext ==
    \/ SyncTick
    \/ SyncSetOnline
    \/ AddToSyncQueue
    \/ ProcessSyncQueueStart
    \/ ProcessSyncQueueItem
    \/ ProcessSyncQueueReturn

SyncSpec == SyncInit /\ [][SyncNext]_vars

----------------------------------------------------------------------------
(* The split allocator on enumerated inputs: the steps addExpense takes    *)
(* before it writes anything                                               *)

SplitIds == Users \cup {NoUser}

SplitInit ==
    /\ \E total \in 0..MaxTotal, raw \in SeqsUpTo(SplitIds, MaxParticipants),
          payerId \in Users :
          alloc = [pc |-> "input", total |-> total, raw |-> raw, payerId |-> payerId,
                   participants |-> <<>>, shares |-> <<>>]
    /\ groupExists = FALSE
    /\ created_by = NoUser
    /\ members = {}
    /\ group_members = {}
    /\ expenses = [e \in ExpenseIds |-> NoRow]
    /\ splits = noSplits
    /\ payments = [p \in PaymentIds |-> NoRow]
    /\ lastOp = [op |-> "none", ok |-> TRUE, member |-> NoUser, refused |-> FALSE,
                 fault |-> "none"]
    /\ dl = dlIdle
    /\ reader = readerIdle
    /\ dash = dashIdle
    /\ sync = syncIdle
    /\ leaving = leavingIdle

SplitValidate ==
    /\ alloc.pc = "input"
    /\ alloc' = [alloc EXCEPT !.pc = IF assertValidAmount(alloc.total)
                                     THEN "valid" ELSE "rejected"]
    /\ UNCHANGED <<ledgerVars, dl, reader, dash, sync, leaving>>

SplitEnsure ==
    /\ alloc.pc = "valid"
    /\ alloc' = [alloc EXCEPT !.pc = "ensured",
                              !.participants = ensureParticipants(alloc.raw, alloc.payerId)]
    /\ UNCHANGED <<ledgerVars, dl, reader, dash, sync, leaving>>

SplitDistribute ==
    /\ alloc.pc = "ensured"
    /\ alloc' = [alloc EXCEPT !.pc = "done",
                              !.shares = distributeShares(alloc.total, alloc.participants)]
    /\ UNCHANGED <<ledgerVars, dl, reader, dash, sync, leaving>>

SplitNext == SplitValidate \/ SplitEnsure \/ SplitDistribute

SplitSpec == SplitInit /\ [][SplitNext]_vars

----------------------------------------------------------------------------
(* SettlementsPage.buildDebtLines, one loop iteration per step.            *)
(* Balances arrive as calculateGroupBalances returns them: two-decimal     *)
(* values, one entry per user, sorted by descending balance.  A floating   *)
(* subtraction of two such values can land a hair above or below the      *)
(* exact result; the model adds -1, 0 or +1 mill to it.                    *)

DebtUserOrder == <<"a", "b", "c", "d", "e", "f">>
BalanceValues == {10 * c : c \in (-MaxBalance)..MaxBalance}

sortedDesc(s) == \A i \in 1..(Len(s) - 1) : s[i] >= s[i + 1]

BalanceLists ==
    {[i \in DOMAIN s |-> [userId |-> DebtUserOrder[i], balance |-> s[i]]] :
        s \in {t \in SeqsUpTo(BalanceValues, MaxBalances) : sortedDesc(t)}}

RECURSIVE SelectMap(_, _, _)
\* filter(...).map(...) keeping order; neg selects debtors
SelectMap(balances, i, neg) ==
    IF i > Len(balances) THEN <<>>
    ELSE LET b == balances[i]
             keep == IF neg THEN b.balance < -Epsilon ELSE b.balance > Epsilon
             rest == SelectMap(balances, i + 1, neg)
         IN  IF keep THEN <<[id |-> b.userId, amount |-> abs(b.balance)]>> \o rest
             ELSE rest

DebtInit ==
    /\ \E balances \in BalanceLists :
          dl = [pc |-> "start", balances |-> balances, debtors |-> <<>>,
                creditors |-> <<>>, debtorIndex |-> 0, creditorIndex |-> 0,
                result |-> <<>>]
    /\ groupExists = FALSE
    /\ created_by = NoUser
    /\ members = {}
    /\ group_members = {}
    /\ expenses = [e \in ExpenseIds |-> NoRow]
    /\ splits = noSplits
    /\ payments = [p \in PaymentIds |-> NoRow]
    /\ lastOp = [op |-> "none", ok |-> TRUE, member |-> NoUser, refused |-> FALSE,
                 fault |-> "none"]
    /\ alloc = allocIdle
    /\ reader = readerIdle
    /\ dash = dashIdle
    /\ sync = syncIdle
    /\ leaving = leavingIdle

DebtFilter ==
    /\ dl.pc = "start"
    /\ dl' = [dl EXCEPT !.pc = "loop",
                        !.debtors = SelectMap(dl.balances, 1, TRUE),
                        !.creditors = SelectMap(dl.balances, 1, FALSE)]
    /\ UNCHANGED <<ledgerVars, alloc, reader, dash, sync, leaving>>

loopCondition ==
    dl.debtorIndex < Len(dl.debtors) /\ dl.creditorIndex < Len(dl.creditors)

\* x - amount in floating point: exactly 0 when x = amount, else off by a hair
floatSub(x, amount) == IF x = amount THEN {0} ELSE {x - amount - 1, x - amount, x - amount + 1}

\* a variant that moves the larger of the two open amounts
transferAmountMax(debtor, creditor) ==
    IF debtor.amount >= creditor.amount THEN debtor.amount ELSE creditor.amount

\* a variant that moves half of the smaller open amount
transferAmountHalf(debtor, creditor) ==
    IF debtor.amount <= creditor.amount THEN (debtor.amount \div 20) * 10
    ELSE (creditor.amount \div 20) * 10

\* Math.min(debtor.amount, creditor.amount)
transferAmount(debtor, creditor) ==
    IF debtor.amount <= creditor.amount THEN debtor.amount ELSE creditor.amount

DebtIterate ==
    /\ dl.pc = "loop"
    /\ loopCondition
    /\ LET debtor == dl.debtors[dl.debtorIndex + 1]
           creditor == dl.creditors[dl.creditorIndex + 1]
           amount == transferAmount(debtor, creditor)
           pushed == IF amount > Epsilon
                     THEN Append(dl.result, [from |-> debtor.id, to |-> creditor.id,
                                             amount |-> toFixed2(amount)])
                     ELSE dl.result
       IN  \E dAmount \in floatSub(debtor.amount, amount),
              cAmount \in floatSub(creditor.amount, amount) :
             dl' = [dl EXCEPT
                      !.result = pushed,
                      !.debtors[dl.debtorIndex + 1].amount = dAmount,
                      !.creditors[dl.creditorIndex + 1].amount = cAmount,
                      !.debtorIndex = IF dAmount <= Epsilon THEN @ + 1 ELSE @,
                      !.creditorIndex = IF cAmount <= Epsilon THEN @ + 1 ELSE @]
    /\ UNCHANGED <<ledgerVars, alloc, reader, dash, sync, leaving>>

DebtReturn ==
    /\ dl.pc = "loop"
    /\ ~loopCondition
    /\ dl' = [dl EXCEPT !.pc = "done"]
    /\ UNCHANGED <<ledgerVars, alloc, reader, dash, sync, leaving>>

DebtNext == DebtFilter \/ DebtIterate \/ DebtReturn

DebtSpec == DebtInit /\ [][DebtNext]_vars

\* the function runs to its return statement: no step of it blocks
DebtFairSpec == DebtSpec /\ WF_vars(DebtNext)

----------------------------------------------------------------------------
(* Properties *)

balanceSum(bals) == SumOver([u \in DOMAIN bals |-> bals[u].balance], DOMAIN bals)

\* C1 Conservation: after any sequence of completed expense and payment
\* calls, each succeeding or failing, the balances returned by
\* calculateGroupBalances sum to zero.
C1_Conservation == balanceSum(calculateGroupBalances) = 0

\* C2 Split exactness: for a total > 0 in whole cents and a non-empty
\* participant list, the shares returned by distributeShares sum to
\* exactly the total.
C2_SplitExactness ==
    (alloc.pc = "done" /\ alloc.total % 10 = 0)
        => SumOver(alloc.shares, DOMAIN alloc.shares) = alloc.total

\* four cents among three participants: one cent of remainder to place
C2_Witness ==
    /\ alloc.pc = "done"
    /\ alloc.total = 40
    /\ Len(alloc.participants) = 3
    /\ SumOver(alloc.shares, DOMAIN alloc.shares) = 40

\* C3 Stored splits match the stored amount: after addExpense or
\* updateExpense returns successfully, for any accepted amount, the split
\* rows of the expense sum to exactly its stored amount.
C3_SplitsSumToAmount ==
    (lastOp.op \in {"addExpense", "updateExpense"} /\ lastOp.ok)
        => \A e \in ExpenseIds :
              (expenses[e] # NoRow /\ DOMAIN splits[e] # {})
                  => SumOver(splits[e], DOMAIN splits[e]) = expenses[e].amount

\* what expense e adds to user u's totalPaid and totalShare
paidFrom(ex, e, u) == IF ex[e] # NoRow /\ ex[e].payerId = u THEN ex[e].amount ELSE 0
shareFrom(ex, sp, e, u) == IF ex[e] # NoRow /\ u \in DOMAIN sp[e] THEN sp[e][u] ELSE 0

\* a step in which joinGroup succeeds for user u
joins(u) ==
    /\ lastOp'.op = "joinGroup"
    /\ lastOp'.ok
    /\ u \in group_members' \ group_members

\* C4 New-member non-retroactivity, as claimed: a member M who joins after
\* expense E was recorded has no split row for E, joining leaves every
\* balance unchanged, and E contributes zero to M's totalPaid and totalShare.
C4_NonRetroactivity ==
    [][\A u \in Users : joins(u) =>
          /\ calculateGroupBalances' = calculateGroupBalances
          /\ \A e \in ExpenseIds : expenses[e] # NoRow =>
                /\ u \notin DOMAIN splits'[e]
                /\ paidFrom(expenses', e, u) = 0
                /\ shareFrom(expenses', splits', e, u) = 0]_vars

\* C4 amended: joining writes no expense, split or payment row and leaves
\* every balance unchanged; the joiner has a split row for an earlier
\* expense E only if it had that row before joining; and E contributes zero
\* to the totals of a joiner that is neither its payer nor in its split rows.
C4_JoinIsFrame ==
    [][\A u \in Users : joins(u) =>
          /\ UNCHANGED <<expenses, splits, payments>>
          /\ calculateGroupBalances' = calculateGroupBalances
          /\ \A e \in ExpenseIds : expenses[e] # NoRow =>
                /\ (u \in DOMAIN splits'[e]) <=> (u \in DOMAIN splits[e])
                /\ (u \notin DOMAIN splits[e] /\ expenses[e].payerId # u) =>
                      /\ paidFrom(expenses', e, u) = 0
                      /\ shareFrom(expenses', splits', e, u) = 0
                      /\ (\A o \in ExpenseIds \ {e} : expenses[o] = NoRow)
                            => u \notin DOMAIN paidTotals(expenses') \cup
                                        DOMAIN shareTotals(expenses', splits')]_vars

\* a user has just joined a group holding an expense it has no part in
C4_Witness ==
    /\ lastOp.op = "joinGroup"
    /\ lastOp.ok
    /\ \E e \in ExpenseIds, u \in group_members \ {created_by} :
          /\ expenses[e] # NoRow
          /\ expenses[e].payerId # u
          /\ u \notin DOMAIN splits[e]
          /\ DOMAIN splits[e] # {}
          /\ u \notin DOMAIN calculateGroupBalances

\* C9 Membership guard: a leaveGroup or removeMember call for a member whose
\* balance exceeds 0.01 in absolute value fails and leaves the membership
\* unchanged; a deleteGroup call while any balance exceeds 0.01 in absolute
\* value fails and deletes nothing; with the relevant balances within 0.01
\* of zero (or no balance entry) the call is not held back by the guard.
C9_MembershipGuard ==
    [][/\ (lastOp'.op \in {"leaveGroup", "removeMember"}
            /\ abs(Balance(lastOp'.member)) > Epsilon)
          => (~lastOp'.ok /\ UNCHANGED <<members, group_members>>)
       /\ (lastOp'.op \in {"leaveGroup", "removeMember"}
            /\ abs(Balance(lastOp'.member)) <= Epsilon)
          => ~lastOp'.refused
       /\ (lastOp'.op = "deleteGroup"
            /\ \E b \in Users : abs(Balance(b)) > Epsilon)
          => /\ ~lastOp'.ok
             /\ UNCHANGED <<groupExists, created_by, members, group_members,
                            expenses, splits, payments>>
       /\ (lastOp'.op = "deleteGroup"
            /\ \A b \in Users : abs(Balance(b)) <= Epsilon)
          => ~lastOp'.refused]_vars

\* a member with an outstanding balance has just been refused
C9_Witness ==
    /\ groupExists
    /\ lastOp.op \in {"leaveGroup", "removeMember"}
    /\ lastOp.refused
    /\ lastOp.member \in (members \cap group_members) \ {created_by}
    /\ abs(Balance(lastOp.member)) > Epsilon

\* balances with payment p left out of the payments table
balancesWithout(p) == balancesOf(expenses, splits, [payments EXCEPT ![p] = NoRow])

\* a successful confirmPayment step that confirms the PENDING payment p
confirms(p) ==
    /\ payments[p] # NoRow
    /\ payments[p].status = "PENDING"
    /\ lastOp'.op = "confirmPayment"
    /\ lastOp'.ok
    /\ payments'[p].status = "CONFIRMED"

\* C5 Payment state effect: a PENDING payment contributes 0 to every
\* balance; a successful confirmPayment on it raises the sender's balance
\* by exactly its amount, lowers the receiver's by exactly its amount and
\* leaves every other user's balance unchanged.
C5_PaymentStateEffect ==
    /\ [](\A p \in PaymentIds :
            (payments[p] # NoRow /\ payments[p].status = "PENDING")
               => \A u \in Users :
                     balanceIn(balancesWithout(p), u) = Balance(u))
    /\ [][\A p \in PaymentIds : confirms(p) =>
             \A u \in Users :
                   Balance(u)' = Balance(u)
                       + (IF u = payments[p].from THEN payments[p].amount ELSE 0)
                       - (IF u = payments[p].to THEN payments[p].amount ELSE 0)]_vars

\* a payment has just been confirmed between two users while a third one
\* holds a balance of its own
C5_Witness ==
    /\ lastOp.op = "confirmPayment"
    /\ lastOp.ok
    /\ \E p \in PaymentIds :
          /\ payments[p] # NoRow
          /\ payments[p].status = "CONFIRMED"
          /\ balanceIn(balancesWithout(p), payments[p].from)
                = Balance(payments[p].from) - payments[p].amount
          /\ \E u \in Users \ {payments[p].from, payments[p].to} : Balance(u) # 0

\* a step of one of the calls that write a payment's status
statusCall ==
    lastOp'.op \in {"confirmPayment", "rejectPayment", "updatePayment"}

\* C6 CONFIRMED is terminal: once a payment is CONFIRMED no later
\* confirmPayment, rejectPayment or updatePayment call changes its status.
C6_ConfirmedTerminal ==
    [][\A p \in PaymentIds :
          (statusCall /\ payments[p] # NoRow /\ payments[p].status = "CONFIRMED")
             => (payments'[p] # NoRow /\ payments'[p].status = "CONFIRMED")]_vars

\* C7 REJECTED is terminal and never counts: once a payment is REJECTED its
\* status stays REJECTED and it contributes 0 to the balances of its sender
\* and receiver, whatever operation follows.
C7_RejectedTerminal ==
    [][\A p \in PaymentIds :
          (payments[p] # NoRow /\ payments[p].status = "REJECTED")
             => /\ payments'[p] # NoRow
                /\ payments'[p].status = "REJECTED"
                /\ \A u \in {payments[p].from, payments[p].to} :
                      balanceIn(balancesWithout(p), u)' = Balance(u)']_vars

\* the payments whose status is COMPLETED or CONFIRMED, by sender / receiver
countedFrom(u) ==
    {p \in PaymentIds : /\ payments[p] # NoRow
                        /\ payments[p].from = u
                        /\ payments[p].status \in {"COMPLETED", "CONFIRMED"}}
countedTo(u) ==
    {p \in PaymentIds : /\ payments[p] # NoRow
                        /\ payments[p].to = u
                        /\ payments[p].status \in {"COMPLETED", "CONFIRMED"}}
paymentAmounts == [p \in paymentRows(payments) |-> payments[p].amount]
totalOf(field, u) ==
    IF u \in DOMAIN calculateGroupBalances
    THEN calculateGroupBalances[u][field] ELSE 0

\* C10 Counted statuses: a payment adds its amount to totalSent of its
\* sender and totalReceived of its receiver if and only if its status is
\* COMPLETED or CONFIRMED; PENDING and REJECTED payments add nothing.
C10_CountedStatuses ==
    \A u \in Users :
       /\ totalOf("totalSent", u) = SumOver(paymentAmounts, countedFrom(u))
       /\ totalOf("totalReceived", u) = SumOver(paymentAmounts, countedTo(u))

\* a COMPLETED payment is counted on both sides
C10_Witness ==
    \E p \in PaymentIds :
       /\ payments[p] # NoRow
       /\ payments[p].status = "COMPLETED"
       /\ totalOf("totalSent", payments[p].from) = payments[p].amount
       /\ totalOf("totalReceived", payments[p].to) = payments[p].amount
       /\ totalOf("totalSent", payments[p].to) = 0

\* the amounts of the returned lines that have id in the given field
RECURSIVE lineSum(_, _, _)
lineSum(result, field, id) ==
    IF result = <<>> THEN 0
    ELSE (IF Head(result)[field] = id THEN Head(result).amount ELSE 0)
         + lineSum(Tail(result), field, id)

\* balance of entry i after every returned line is paid
settled(i) ==
    dl.balances[i].balance
        + lineSum(dl.result, "from", dl.balances[i].userId)
        - lineSum(dl.result, "to", dl.balances[i].userId)

balancesSumToZero ==
    SumOver([i \in DOMAIN dl.balances |-> dl.balances[i].balance],
            DOMAIN dl.balances) = 0

withStatus(status) ==
    {p \in PaymentIds : payments[p] # NoRow /\ payments[p].status = status}

\* C11 COMPLETED as non-counting, as claimed: a COMPLETED payment
\* contributes 0 to every balance, exactly as a PENDING payment does.
C11_CompletedNonCounting ==
    \A p \in withStatus("COMPLETED") :
       \A u \in Users : balanceIn(balancesWithout(p), u) = Balance(u)

\* C11 amended: a COMPLETED payment counts exactly as a CONFIRMED one: it
\* adds its amount to its sender's balance and takes it from its receiver's,
\* and the balances are those the same payment gives once CONFIRMED; only a
\* PENDING payment contributes 0.
C11_CompletedCounts ==
    /\ \A p \in withStatus("COMPLETED") :
          /\ \A u \in Users :
                Balance(u) = balanceIn(balancesWithout(p), u)
                    + (IF u = payments[p].from THEN payments[p].amount ELSE 0)
                    - (IF u = payments[p].to THEN payments[p].amount ELSE 0)
          /\ calculateGroupBalances
                = balancesOf(expenses, splits,
                             [payments EXCEPT ![p].status = "CONFIRMED"])
    /\ \A p \in withStatus("PENDING") :
          calculateGroupBalances = balancesWithout(p)

\* a COMPLETED payment between two users moves both of their balances
C11_Witness ==
    \E p \in withStatus("COMPLETED") :
       /\ payments[p].from # payments[p].to
       /\ Balance(payments[p].from) # balanceIn(balancesWithout(p), payments[p].from)
       /\ Balance(payments[p].to) # balanceIn(balancesWithout(p), payments[p].to)

\* the plain sums the totals of user u are claimed to be
paidSum(u) ==
    SumOver([e \in expenseRows(expenses) |-> expenses[e].amount],
            {e \in expenseRows(expenses) : expenses[e].payerId = u})
shareSum(u) ==
    SumOver([r \in splitRows(expenses, splits) |-> splits[r[1]][r[2]]],
            {r \in splitRows(expenses, splits) : r[2] = u})

\* C12 Balance formula: for every user in the result, totalPaid is the sum
\* of the amounts of the expenses the user paid, totalShare the sum of the
\* user's split amounts, totalSent and totalReceived the sums of the counted
\* payments from and to the user, and balance is
\* (totalPaid - totalShare) + totalSent - totalReceived.
C12_BalanceFormula ==
    \A u \in DOMAIN calculateGroupBalances :
       LET b == calculateGroupBalances[u]
       IN  /\ b.totalPaid = paidSum(u)
           /\ b.totalShare = shareSum(u)
           /\ b.totalSent = SumOver(paymentAmounts, countedFrom(u))
           /\ b.totalReceived = SumOver(paymentAmounts, countedTo(u))
           /\ b.balance = (b.totalPaid - b.totalShare) + b.totalSent - b.totalReceived

\* C13 Split fairness: for every accepted total and non-empty participant
\* list, any two shares returned by distributeShares differ by at most one
\* cent.
C13_SplitFairness ==
    alloc.pc = "done"
        => \A u, v \in DOMAIN alloc.shares :
              abs(alloc.shares[u] - alloc.shares[v]) <= 10

\* 0.025 between two participants: shares of two cents and one cent
C13_Witness ==
    /\ alloc.pc = "done"
    /\ alloc.total = 25
    /\ Len(alloc.participants) = 2
    /\ \E u, v \in DOMAIN alloc.shares : alloc.shares[u] - alloc.shares[v] = 10

\* C14 addExpense is all-or-nothing: when addExpense returns, with success
\* or with an error, the expense row it was to write and all of its split
\* rows exist, or neither the row nor any split row does.
C14_AddExpenseAtomic ==
    [][lastOp'.op = "addExpense" =>
          \A e \in ExpenseIds : expenses[e] = NoRow =>
             ((expenses'[e] # NoRow) <=> (DOMAIN splits'[e] # {}))]_vars

\* the expense rows and split rows a returned calculateGroupBalances call
\* folded belong together: for every expense present in both result sets
\* the split amounts add up to the expense's amount in cents, as they do in
\* every committed state of one expense
readTogether(e) ==
    (reader.expensesRes[e] # NoRow /\ reader.splitsRes[e] # <<>>)
        => SumOver(reader.splitsRes[e], DOMAIN reader.splitsRes[e])
              = toFixed2(reader.expensesRes[e].amount)

\* C15: no calculateGroupBalances call interleaved with an updateExpense
\* computes balances from the new amount with the old splits or from the old
\* amount with the new splits: the rows a returned call has folded are those
\* of one committed state of each expense.
C15_UpdateNotTorn ==
    (reader.pc = "done" /\ reader.ok) => \A e \in ExpenseIds : readTogether(e)

\* a confirmPayment step whose status write went through and whose
\* notification failed
notifyFailed == lastOp'.op = "confirmPayment" /\ lastOp'.fault = "notify"

\* C16: when the notification fails after confirmPayment has written the
\* status, the call reports the failure but the payment stays CONFIRMED with
\* confirmed_at set and counts in the balances: sender up by its amount,
\* receiver down by its amount against the balances without it.
C16_ConfirmNotRolledBack ==
    /\ [][notifyFailed =>
            /\ ~lastOp'.ok
            /\ \E p \in PaymentIds :
                  /\ payments[p] # NoRow
                  /\ payments' = [payments EXCEPT ![p].status = "CONFIRMED",
                                                  ![p].confirmed_at = TRUE]]_vars
    /\ []((lastOp.op = "confirmPayment" /\ lastOp.fault = "notify") =>
            \A p \in PaymentIds :
               (payments[p] # NoRow /\ payments[p].status = "CONFIRMED") =>
                  \A u \in Users :
                     Balance(u) = balanceIn(balancesWithout(p), u)
                        + (IF u = payments[p].from THEN payments[p].amount ELSE 0)
                        - (IF u = payments[p].to THEN payments[p].amount ELSE 0))

\* a confirmPayment call has failed on its notification and the payment it
\* was called on is CONFIRMED and moves its sender's balance
C16_Witness ==
    /\ lastOp.op = "confirmPayment"
    /\ lastOp.fault = "notify"
    /\ ~lastOp.ok
    /\ \E p \in PaymentIds :
          /\ payments[p] # NoRow
          /\ payments[p].status = "CONFIRMED"
          /\ payments[p].confirmed_at
          /\ Balance(payments[p].from)
                = balanceIn(balancesWithout(p), payments[p].from) + payments[p].amount

\* the calls that write expenses, splits or payments
mutatingCalls == {"addExpense", "updateExpense", "deleteExpense",
                  "addPayment", "confirmPayment", "rejectPayment"}

\* C17: no mutating operation swallows a storage failure: a call of
\* addExpense, updateExpense, deleteExpense, addPayment, confirmPayment or
\* rejectPayment in which a storage write failed has raised an error and
\* not reported success.
C17_NoSwallowedFailure ==
    (lastOp.op \in mutatingCalls /\ lastOp.fault = "write") => ~lastOp.ok

\* C18: calculateGroupBalances called with the id of a group that does not
\* exist fails with an error instead of returning a list.
C18_UnknownGroupFails ==
    (reader.pc = "done" /\ ~groupExists) => ~reader.ok

\* a successful addExpense or updateExpense step
expenseWritten == lastOp'.op \in {"addExpense", "updateExpense"} /\ lastOp'.ok

\* C19: after a successful addExpense or updateExpense the expense it wrote
\* has a split row for its payer, whether or not the payer was in the
\* supplied list; and the list handed to distributeShares is never empty.
C19_PayerHasSplit ==
    /\ [][expenseWritten =>
            \A e \in ExpenseIds :
               (expenses'[e] # NoRow
                  /\ (expenses'[e] # expenses[e] \/ splits'[e] # splits[e]))
                  => expenses'[e].payerId \in DOMAIN splits'[e]]_vars
    /\ [](\A raw \in ParticipantLists, payerId \in Users :
             ensureParticipants(raw, payerId) # <<>>)

\* an expense was added for a payer who was not in the supplied one-name
\* list: it has a split row for the payer and one for the listed user
C19_Witness ==
    /\ lastOp.op = "addExpense"
    /\ lastOp.ok
    /\ \E e \in ExpenseIds :
          /\ expenses[e] # NoRow
          /\ expenses[e].payerId \in DOMAIN splits[e]
          /\ Cardinality(DOMAIN splits[e]) = MaxListed + 1

\* the amounts assertValidAmount has to turn down
InvalidAmounts == {amount \in ExpenseAmounts : amount = NotFinite \/ amount <= 0}

\* an addExpense or updateExpense call made with such an amount
invalidAmountCall ==
    \/ \E id \in ExpenseIds, payerId \in Users, amount \in InvalidAmounts,
          raw \in ParticipantLists : addExpense(id, payerId, amount, raw)
    \/ \E id \in ExpenseIds, amount \in InvalidAmounts, raw \in ParticipantLists :
          updateExpense(id, amount, raw)

\* C20: addExpense and updateExpense called with an amount that is zero,
\* negative or not finite fail with an error before any storage write: no
\* expense row and no split row changes; and every stored expense has an
\* amount above zero.
C20_AmountValidated ==
    /\ [][invalidAmountCall =>
            /\ ~lastOp'.ok
            /\ lastOp'.fault = "input"
            /\ UNCHANGED <<expenses, splits>>]_vars
    /\ [](\A e \in ExpenseIds :
             expenses[e] # NoRow
                => (expenses[e].amount # NotFinite /\ expenses[e].amount > 0))

\* updateExpense was called with an invalid amount on a stored expense and
\* has failed on its input; the expense and its splits are still there
C20_Witness ==
    /\ lastOp.op = "updateExpense"
    /\ lastOp.fault = "input"
    /\ ~lastOp.ok
    /\ \E e \in ExpenseIds :
          expenses[e] # NoRow /\ expenses[e].amount > 0 /\ splits[e] # <<>>

\* C21: every payment created by initiating a payment is stored in status
\* PENDING, and the call, whether it succeeds or fails, leaves the result of
\* calculateGroupBalances unchanged.
C21_InitiateIsPending ==
    [][lastOp'.op = "addPayment" =>
         /\ \A p \in PaymentIds :
               (payments[p] = NoRow /\ payments'[p] # NoRow)
                  => payments'[p].status = "PENDING"
         /\ calculateGroupBalances' = calculateGroupBalances]_vars

\* a payment has been initiated in a group whose balances are not all zero
C21_Witness ==
    /\ lastOp.op = "addPayment"
    /\ lastOp.ok
    /\ \E p \in PaymentIds : payments[p] # NoRow /\ payments[p].status = "PENDING"
    /\ \E u \in Users : Balance(u) # 0

\* C22 Remainder rule: with cents the total in cents, n the number of
\* participants, base = floor(cents / n) and r = cents - base * n, the first
\* r participants in the supplied order get base + 1 cents and every later
\* one base cents; the mapping is a function of the amount and the ordered
\* list alone, so the same inputs always give the same mapping.
C22_RemainderRule ==
    alloc.pc = "done" =>
        LET cents == centsOf(alloc.total)
            n == Len(alloc.participants)
            base == cents \div n
            r == cents - base * n
        IN  /\ DOMAIN alloc.shares = Range(alloc.participants)
            /\ \A i \in 1..n :
                  alloc.shares[alloc.participants[i]]
                     = (IF i <= r THEN base + 1 ELSE base) * 10

\* five cents among three participants: the first two get two cents, the
\* third one cent
C22_Witness ==
    /\ alloc.pc = "done"
    /\ centsOf(alloc.total) = 5
    /\ Len(alloc.participants) = 3
    /\ alloc.shares[alloc.participants[1]] = 20
    /\ alloc.shares[alloc.participants[2]] = 20
    /\ alloc.shares[alloc.participants[3]] = 10

\* one iteration of the two-pointer loop
iterates == dl.pc = "loop" /\ dl'.pc = "loop"

\* every iteration advances the debtor pointer, the creditor pointer or both
pointersAdvance ==
    [][iterates =>
         /\ dl'.debtorIndex >= dl.debtorIndex
         /\ dl'.creditorIndex >= dl.creditorIndex
         /\ dl'.debtorIndex + dl'.creditorIndex
               > dl.debtorIndex + dl.creditorIndex]_vars

\* C23 as stated: buildDebtLines terminates, every iteration advances a
\* pointer, and the number of emitted transfers is at most
\* (number of debtors + number of creditors - 1).
C23_TransfersBelowSum ==
    /\ pointersAdvance
    /\ <>(dl.pc = "done")
    /\ [](dl.pc = "done" =>
            Len(dl.result) <= Len(dl.debtors) + Len(dl.creditors) - 1)

\* C23 as the code has it: buildDebtLines terminates, every iteration
\* advances a pointer, and the number of emitted transfers is at most
\* (debtors + creditors - 1) when there is a debtor or a creditor, and zero
\* when there is neither.
C23_Terminates ==
    /\ pointersAdvance
    /\ <>(dl.pc = "done")
    /\ [](dl.pc \in {"loop", "done"} =>
            Len(dl.result)
               <= (IF Len(dl.debtors) + Len(dl.creditors) = 0 THEN 0
                   ELSE Len(dl.debtors) + Len(dl.creditors) - 1))

\* two debtors and two creditors settled with three transfers, the most the
\* bound allows
C23_Witness ==
    /\ dl.pc = "done"
    /\ Len(dl.debtors) = 2
    /\ Len(dl.creditors) = 2
    /\ Len(dl.result) = 3

\* the input balance of a user of the list
inputBalance(userId) ==
    LET i == CHOOSE k \in DOMAIN dl.balances : dl.balances[k].userId = userId
    IN  dl.balances[i].balance

\* C24: every transfer emitted by buildDebtLines goes from a user whose
\* input balance is below -0.01 to a user whose input balance is above 0.01
\* and has an amount greater than 0.01; users within 0.01 of zero appear in
\* no transfer, and the result is empty without a debtor or a creditor.
C24_TransfersWellFormed ==
    dl.pc \in {"loop", "done"} =>
        /\ \A i \in DOMAIN dl.result :
              /\ inputBalance(dl.result[i].from) < -Epsilon
              /\ inputBalance(dl.result[i].to) > Epsilon
              /\ dl.result[i].from # dl.result[i].to
              /\ dl.result[i].amount > Epsilon
        /\ (Len(dl.debtors) = 0 \/ Len(dl.creditors) = 0) => dl.result = <<>>

\* the users the ledger mentions: payers, holders of a split row, senders
\* and receivers of COMPLETED or CONFIRMED payments
involved ==
    {expenses[e].payerId : e \in {x \in ExpenseIds : expenses[x] # NoRow}}
    \cup UNION {DOMAIN splits[e] : e \in {x \in ExpenseIds : expenses[x] # NoRow}}
    \cup UNION {{payments[p].from, payments[p].to} :
                  p \in {x \in PaymentIds :
                            /\ payments[x] # NoRow
                            /\ payments[x].status \in {"COMPLETED", "CONFIRMED"}}}

\* C25: the result of calculateGroupBalances has an entry (one: it is keyed
\* by user) for exactly the users who paid a group expense, hold a split
\* row, or sent or received a counted payment, and for nobody else, current
\* members included.
C25_ResultSet == DOMAIN calculateGroupBalances = involved

\* balances exist, a member of the group has no entry and neither has the
\* sender of a payment that is not counted
C25_Witness ==
    /\ DOMAIN calculateGroupBalances # {}
    /\ \E u \in members : u \notin DOMAIN calculateGroupBalances
    /\ \E p \in PaymentIds :
          /\ payments[p] # NoRow
          /\ payments[p].status = "PENDING"
          /\ payments[p].from \notin DOMAIN calculateGroupBalances

\* C26: the balance the Dashboard page computes for the current user from
\* getExpenses and getPayments equals the balance calculateGroupBalances
\* reports for that user (0 without an entry), for every ledger, those with
\* more expenses than one getExpenses page returns included.
C26_DashboardAgrees ==
    dash.pc = "done" => dash.net = balanceIn(dashBalances, dash.currentUser)

\* C27: for every balance list summing to zero, buildDebtLines returns no
\* transfer if and only if every balance is within 0.01 of zero, the test
\* the leave, remove and delete guards make for each member.
C27_SettledIffNoTransfer ==
    (dl.pc = "done" /\ balancesSumToZero) =>
        ((dl.result = <<>>)
            <=> \A i \in DOMAIN dl.balances : abs(dl.balances[i].balance) <= Epsilon)

\* C28: under any interleaving of leaveGroup or removeMember with other
\* clients' calls, at the moment the member is taken off the group's member
\* list the member's balance computed from the committed ledger is within
\* 0.01 of zero.
C28_LeavesSettled ==
    [][\A u \in Users :
          (u \in members /\ u \notin members'
             /\ lastOp'.op \in {"leaveGroup", "removeMember"})
             => abs(Balance(u)') <= Epsilon]_vars

\* C29: after any sequence of createGroup, joinGroup, leaveGroup and
\* removeMember calls, each succeeding or failing, a user is in the group's
\* members array if and only if the user has a group_members row.
C29_MembersMatchRows ==
    groupExists => \A u \in Users : (u \in members <=> u \in group_members)

\* C30 Sync queue retry bound: an item leaves the queue exactly when its
\* handler first succeeds or its failure count reaches 3, so no item is
\* attempted more than 3 times; within a run the items are attempted in
\* ascending timestamp order; a run made while offline attempts and removes
\* nothing.
C30_RetryBound ==
    /\ [](\A id \in SyncIds :
             /\ sync.attempts[id] <= RetryLimit
             /\ sync.added[id] =>
                   ((sync.queue[id] = NoRow)
                       <=> (sync.succeeded[id] \/ sync.failures[id] >= RetryLimit)))
    /\ [](\A r \in SyncRuns : \A j, k \in DOMAIN sync.runs[r].items :
             j < k => sync.runs[r].items[j].timestamp <= sync.runs[r].items[k].timestamp)
    /\ [][sync'.offlineRuns # sync.offlineRuns =>
            /\ sync'.queue = sync.queue
            /\ sync'.attempts = sync.attempts
            /\ sync'.runs = sync.runs]_vars

====
